---- MODULE Spec2Model ----
(***************************************************************************)
(* Model of contracts/deploy-js/python-deploy.py: the VeriLuxeDeployer     *)
(* class (setup_network, setup_account, load_wasm, deploy_contract,        *)
(* initialize_contract) and the command-line entry point main().           *)
(*                                                                         *)
(* The Horizon server is an external collaborator.  Its behaviour in one   *)
(* run is fixed up front as a mock plan (mock_load, mock_submit, mock_hash,*)
(* mock_addr): what each load_account and each submit_transaction call     *)
(* does when (and if) the program issues it.                               *)
(*                                                                         *)
(* deploy_contract is a coroutine function.  Two callers are modelled:     *)
(* main(), exactly as written in the source, and a caller that awaits the  *)
(* coroutine (an event loop driving deploy_contract to completion).        *)
(***************************************************************************)
EXTENDS Integers, Sequences, FiniteSets, TLC

\* ---------------------------------------------------------------- bounds
MaxHash == 2      \* distinct bytecode hashes the network may answer with
MaxAddr == 2      \* distinct contract addresses the network may answer with

\* ------------------------------------------------------------- constants
BaseFee == 100000
TxTimeout == 300

Hashes == 1..MaxHash
Addrs  == 1..MaxAddr
Unbound == 0      \* a local that has not been assigned yet

ScriptName == "python-deploy.py"
Networks == {"testnet", "futurenet", "mainnet"}
Argvs == {<<ScriptName>>} \cup {<<ScriptName, n>> : n \in Networks}

Phases == {"upload", "create", "init"}
LoadOutcomes   == {"ok", "raise"}
SubmitOutcomes == {"ok", "soft", "raise"}

\* Values of the ADMIN_SECRET_KEY environment variable.
SecretValues == {"", "SADMIN1", "SADMIN2", "not-a-secret"}
Environs == {[set |-> FALSE, value |-> ""]}
              \cup {[set |-> TRUE, value |-> v] : v \in SecretValues}

NoKeypair == [public_key |-> "", secret |-> ""]
NoAccount == [account_id |-> "", fetched_at |-> 0]
NoResult  == [kind |-> "none", contract_hash |-> Unbound,
              contract_address |-> Unbound, admin_public_key |-> "",
              network |-> ""]

VARIABLES
    caller,             \* "main" or "await": who calls deploy_contract
    argv,               \* sys.argv
    environ,            \* the ADMIN_SECRET_KEY entry of os.environ
    wasm_exists,        \* os.path.exists(default wasm path)
    mock_load,          \* per phase: what load_account does
    mock_submit,        \* per phase: what submit_transaction does
    mock_hash,          \* upload_response['hash']
    mock_addr,          \* create_response['contract_address']
    pc,                 \* position in the program
    network,            \* self.network
    horizon_url,        \* self.horizon_url
    soroban_url,        \* self.soroban_url
    network_passphrase, \* self.network_passphrase
    admin_keypair,      \* self.admin_keypair
    identity_source,    \* which Keypair constructor setup_account called
    wasm_data,          \* TRUE once the binary has been read
    account,            \* local `account`
    contract_hash,      \* local `contract_hash`
    contract_address,   \* local `contract_address`
    calls,              \* every call made on horizon_server, in order
    console,            \* every line printed, in order
    raised,             \* the exception in flight / propagated, or "none"
    result,             \* what deploy_contract() evaluated to
    exit_code           \* process exit status, -1 while running

inputs == <<caller, argv, environ, wasm_exists, mock_load, mock_submit,
            mock_hash, mock_addr>>
fields == <<network, horizon_url, soroban_url, network_passphrase,
            admin_keypair, identity_source>>
locals == <<wasm_data, account, contract_hash, contract_address>>
vars == <<inputs, fields, locals, pc, calls, console, raised, result,
          exit_code>>

Line(m, v) == [msg |-> m, val |-> v]
Say(m) == Line(m, 0)

Init ==
    /\ caller \in {"main", "await"}
    /\ argv \in Argvs
    /\ caller = "await" => argv = <<ScriptName>>
    /\ environ \in Environs
    /\ wasm_exists \in BOOLEAN
    /\ mock_load \in [Phases -> LoadOutcomes]
    /\ mock_submit \in [Phases -> SubmitOutcomes]
    /\ mock_hash \in Hashes
    /\ mock_addr \in Addrs
    /\ pc = "start"
    /\ network = ""
    /\ horizon_url = ""
    /\ soroban_url = ""
    /\ network_passphrase = ""
    /\ admin_keypair = NoKeypair
    /\ identity_source = "none"
    /\ wasm_data = FALSE
    /\ account = NoAccount
    /\ contract_hash = Unbound
    /\ contract_address = Unbound
    /\ calls = <<>>
    /\ console = <<>>
    /\ raised = "none"
    /\ result = NoResult
    /\ exit_code = -1

\* Where an exception raised outside deploy_contract lands: main() catches
\* it (line 215); an awaiting caller just sees it.
Propagate == IF caller = "main" THEN "main_except" ELSE "done"

\* ------------------------------------------------------------ construction
\* main(), lines 199-201: network from argv, default 'testnet'.
main_start ==
    /\ pc = "start"
    /\ caller = "main"
    /\ network' = (IF Len(argv) > 1 THEN argv[2] ELSE "testnet")
    /\ pc' = "setup_network"
    /\ UNCHANGED <<inputs, horizon_url, soroban_url, network_passphrase,
                   admin_keypair, identity_source, locals, calls, console,
                   raised, result, exit_code>>

\* VeriLuxeDeployer(network=n) built by an awaiting caller, line 23.
await_start ==
    /\ pc = "start"
    /\ caller = "await"
    /\ \E n \in Networks : network' = n
    /\ pc' = "setup_network"
    /\ UNCHANGED <<inputs, horizon_url, soroban_url, network_passphrase,
                   admin_keypair, identity_source, locals, calls, console,
                   raised, result, exit_code>>

\* setup_network with an else branch that silently falls back to testnet.
setup_network_default_testnet ==
    /\ pc = "setup_network"
    /\ IF network = "futurenet"
       THEN /\ horizon_url' = "https://horizon-futurenet.stellar.org"
            /\ soroban_url' = "https://rpc-futurenet.stellar.org:443"
            /\ network_passphrase' = "Test SDF Future Network ; October 2022"
       ELSE /\ horizon_url' = "https://horizon-testnet.stellar.org"
            /\ soroban_url' = "https://soroban-testnet.stellar.org"
            /\ network_passphrase' = "Test SDF Network ; September 2015"
    /\ pc' = "setup_account"
    /\ UNCHANGED <<inputs, network, admin_keypair, identity_source, locals,
                   calls, console, raised, result, exit_code>>

\* setup_network, lines 31-45.  Server(...) and SorobanServer(...) only
\* build client objects; no request is sent.
setup_network ==
    /\ pc = "setup_network"
    /\ IF network = "testnet"
       THEN /\ horizon_url' = "https://horizon-testnet.stellar.org"
            /\ soroban_url' = "https://soroban-testnet.stellar.org"
            /\ network_passphrase' = "Test SDF Network ; September 2015"
            /\ pc' = "setup_account"
            /\ UNCHANGED raised
       ELSE IF network = "futurenet"
       THEN /\ horizon_url' = "https://horizon-futurenet.stellar.org"
            /\ soroban_url' = "https://rpc-futurenet.stellar.org:443"
            /\ network_passphrase' = "Test SDF Future Network ; October 2022"
            /\ pc' = "setup_account"
            /\ UNCHANGED raised
       ELSE /\ raised' = "ValueError"
            /\ pc' = Propagate
            /\ UNCHANGED <<horizon_url, soroban_url, network_passphrase>>
    /\ UNCHANGED <<inputs, network, admin_keypair, identity_source, locals,
                   calls, console, exit_code, result>>

\* os.getenv('ADMIN_SECRET_KEY'): None when the variable is not set.
getenv(env) == [is_none |-> ~env.set, str |-> IF env.set THEN env.value ELSE ""]

\* `secret_key is None`: only an unset variable selects the fallback.
secret_key_is_None(secret_key) == secret_key.is_none

\* `not secret_key`, line 51: None and the empty string are both falsy.
not_secret_key(secret_key) == secret_key.is_none \/ secret_key.str = ""

\* Keypair.from_secret: the strkey seeds the SDK decodes, and their keypairs.
ValidSecrets == {"SADMIN1", "SADMIN2"}
PublicKeyOf(s) == CASE s = "SADMIN1" -> "GADMIN1"
                    [] s = "SADMIN2" -> "GADMIN2"
                    [] OTHER -> ""
from_secret(s) == IF s \in ValidSecrets
                  THEN [ok |-> TRUE,
                        keypair |-> [public_key |-> PublicKeyOf(s), secret |-> s]]
                  ELSE [ok |-> FALSE, keypair |-> NoKeypair]

\* The fallback recovery phrase, line 53, and the keypair it derives.
Mnemonic == "coin idle bus total sense awful picture dial stick between erode expose stairs they swing account august indicate cruel nasty inherit vocal veteran deal"
from_mnemonic_phrase(m) ==
    IF m = Mnemonic THEN [public_key |-> "GMNEMONIC", secret |-> "SMNEMONIC"]
                    ELSE [public_key |-> "GOTHER", secret |-> "SOTHER"]

\* setup_account, lines 47-58.
setup_account ==
    /\ pc = "setup_account"
    /\ LET secret_key == getenv(environ) IN
       IF not_secret_key(secret_key)
       THEN /\ admin_keypair' = from_mnemonic_phrase(Mnemonic)
            /\ identity_source' = "mnemonic"
            /\ console' = Append(console, Say("Using generated account from mnemonic"))
            /\ pc' = "banner"
            /\ UNCHANGED raised
       ELSE /\ identity_source' = "secret"
            /\ IF from_secret(secret_key.str).ok
               THEN /\ admin_keypair' = from_secret(secret_key.str).keypair
                    /\ console' = Append(console, Say("Using account from environment variable"))
                    /\ pc' = "banner"
                    /\ UNCHANGED raised
               ELSE /\ raised' = "Ed25519SecretSeedInvalidError"
                    /\ pc' = Propagate
                    /\ UNCHANGED <<admin_keypair, console>>
    /\ UNCHANGED <<inputs, network, horizon_url, soroban_url,
                   network_passphrase, locals, calls, result, exit_code>>

\* The end of __init__, lines 27-29.
init_banner ==
    /\ pc = "banner"
    /\ console' = console \o <<Say("VeriLuxe Python Deployer"),
                               Say("Network"), Say("Admin")>>
    /\ pc' = "constructed"
    /\ UNCHANGED <<inputs, fields, locals, calls, raised, result, exit_code>>

\* ------------------------------------------------------------ horizon_server
Call(fn, op, arg, acct, outcome) ==
    [fn |-> fn, op |-> op, arg |-> arg, acct |-> acct, outcome |-> outcome]

\* horizon_server.load_account(public_key): the call as recorded, and the
\* account object it returns (stamped with its position in `calls`).
LoadCall(phase) == Call("load_account", "none", 0, Len(calls) + 1, mock_load[phase])
LoadedAccount == [account_id |-> admin_keypair.public_key,
                  fetched_at |-> Len(calls) + 1]

\* TransactionBuilder(source_account=account, ..., base_fee=100000)
\*   .add_operation(op).set_timeout(300).build(), signed by admin_keypair.
BuildTx(op, arg) ==
    [op |-> op, arg |-> arg, source_account |-> account,
     network_passphrase |-> network_passphrase, base_fee |-> BaseFee,
     timeout |-> TxTimeout, signed_by |-> admin_keypair.public_key]

\* horizon_server.submit_transaction(tx) as recorded in `calls`.
SubmitCall(tx, phase) ==
    Call("submit_transaction", tx.op, tx.arg, tx.source_account.fetched_at,
         mock_submit[phase])

\* ------------------------------------------------------------------ main()
\* main() driving the coroutine to completion (asyncio.run(...)).
main_call_awaited ==
    /\ pc = "constructed"
    /\ caller = "main"
    /\ pc' = "load_wasm"
    /\ UNCHANGED <<inputs, fields, locals, calls, console, raised, result,
                   exit_code>>

\* Line 202: result = deployer.deploy_contract().  Calling a coroutine
\* function only creates the coroutine object; its body does not start.
main_call ==
    /\ pc = "constructed"
    /\ caller = "main"
    /\ result' = [NoResult EXCEPT !.kind = "coroutine"]
    /\ pc' = "main_summary"
    /\ UNCHANGED <<inputs, fields, locals, calls, console, raised, exit_code>>

\* Lines 204-213.  result['contract_hash'] needs a dict; a coroutine object
\* is not subscriptable (TypeError), which the except clause catches.
main_summary ==
    /\ pc = "main_summary"
    /\ IF result.kind = "dict"
       THEN /\ console' = console \o
                  <<Say("Deployment Summary:"), Say("rule"),
                    Line("Contract Hash", result.contract_hash),
                    Line("Contract Address", result.contract_address),
                    Say("Admin Address"), Say("Network"), Say("rule"),
                    Say("VeriLuxe Fashion Authenticity Contract deployed!"),
                    Say("Ready for frontend integration.")>>
            /\ exit_code' = 0
            /\ pc' = "exited"
            /\ UNCHANGED raised
       ELSE /\ console' = console \o <<Say("Deployment Summary:"), Say("rule")>>
            /\ raised' = "TypeError"
            /\ pc' = "main_except"
            /\ UNCHANGED exit_code
    /\ UNCHANGED <<inputs, fields, locals, calls, result>>

\* Lines 215-217.
main_except ==
    /\ pc = "main_except"
    /\ console' = Append(console, Say("Deployment failed (main)"))
    /\ exit_code' = 1
    /\ pc' = "exited"
    /\ UNCHANGED <<inputs, fields, locals, calls, raised, result>>

\* An awaiting caller: `await deployer.deploy_contract()` starts the body.
await_deploy_contract ==
    /\ pc = "constructed"
    /\ caller = "await"
    /\ pc' = "load_wasm"
    /\ UNCHANGED <<inputs, fields, locals, calls, console, raised, result,
                   exit_code>>

\* --------------------------------------------------------- deploy_contract
\* load_wasm that does not look for the file before the network is used.
deploy_contract_load_wasm_unchecked ==
    /\ pc = "load_wasm"
    /\ console' = Append(console, Say("Starting contract deployment..."))
    /\ wasm_data' = wasm_exists
    /\ pc' = "load_account_upload"
    /\ UNCHANGED <<inputs, fields, account, contract_hash, contract_address,
                   calls, raised, result, exit_code>>

\* Lines 77-80 and load_wasm (60-72), called without a path: the default
\* path is checked with os.path.exists, then read.
deploy_contract_load_wasm ==
    /\ pc = "load_wasm"
    /\ IF ~wasm_exists
       THEN /\ console' = Append(console, Say("Starting contract deployment..."))
            /\ raised' = "FileNotFoundError"
            /\ pc' = "dc_except"
            /\ UNCHANGED wasm_data
       ELSE /\ console' = console \o <<Say("Starting contract deployment..."),
                                       Say("Loaded WASM file")>>
            /\ wasm_data' = TRUE
            /\ pc' = "load_account_upload"
            /\ UNCHANGED raised
    /\ UNCHANGED <<inputs, fields, account, contract_hash, contract_address,
                   calls, result, exit_code>>

\* Lines 83-84.
deploy_contract_load_account ==
    /\ pc = "load_account_upload"
    /\ calls' = Append(calls, LoadCall("upload"))
    /\ IF mock_load["upload"] = "ok"
       THEN /\ account' = LoadedAccount
            /\ console' = Append(console, Say("Account loaded with sequence"))
            /\ pc' = "submit_upload"
            /\ UNCHANGED raised
       ELSE /\ raised' = "RequestException"
            /\ pc' = "dc_except"
            /\ UNCHANGED <<account, console>>
    /\ UNCHANGED <<inputs, fields, wasm_data, contract_hash, contract_address,
                   result, exit_code>>

\* The upload step without the check of upload_response['successful'].
deploy_contract_submit_upload_unchecked ==
    /\ pc = "submit_upload"
    /\ calls' = Append(calls, SubmitCall(BuildTx("UploadContractWasm", 0), "upload"))
    /\ IF mock_submit["upload"] \in {"ok", "soft"}
       THEN /\ contract_hash' = mock_hash
            /\ console' = console \o
                  <<Say("Uploading contract WASM..."),
                    Say("Contract WASM uploaded successfully"),
                    Line("Contract hash", mock_hash),
                    Say("Creating contract instance...")>>
            /\ pc' = "load_account_create"
            /\ UNCHANGED raised
       ELSE /\ console' = Append(console, Say("Uploading contract WASM..."))
            /\ raised' = "RequestException"
            /\ pc' = "dc_except"
            /\ UNCHANGED contract_hash
    /\ UNCHANGED <<inputs, fields, wasm_data, account, contract_address,
                   result, exit_code>>

\* Lines 86-113: build, sign and submit the upload transaction.
deploy_contract_submit_upload ==
    /\ pc = "submit_upload"
    /\ calls' = Append(calls, SubmitCall(BuildTx("UploadContractWasm", 0), "upload"))
    /\ IF mock_submit["upload"] = "ok"
       THEN /\ contract_hash' = mock_hash
            /\ console' = console \o
                  <<Say("Uploading contract WASM..."),
                    Say("Contract WASM uploaded successfully"),
                    Line("Contract hash", mock_hash),
                    Say("Creating contract instance...")>>
            /\ pc' = "load_account_create"
            /\ UNCHANGED raised
       ELSE /\ console' = Append(console, Say("Uploading contract WASM..."))
            /\ raised' = (IF mock_submit["upload"] = "soft"
                          THEN "Exception: Upload failed"
                          ELSE "RequestException")
            /\ pc' = "dc_except"
            /\ UNCHANGED contract_hash
    /\ UNCHANGED <<inputs, fields, wasm_data, account, contract_address,
                   result, exit_code>>

\* The create step reusing the account object fetched for the upload.
deploy_contract_reload_account_skipped ==
    /\ pc = "load_account_create"
    /\ pc' = "submit_create"
    /\ UNCHANGED <<inputs, fields, locals, calls, console, raised, result,
                   exit_code>>

\* Lines 115-116: refresh account for new sequence number.
deploy_contract_reload_account ==
    /\ pc = "load_account_create"
    /\ calls' = Append(calls, LoadCall("create"))
    /\ IF mock_load["create"] = "ok"
       THEN /\ account' = LoadedAccount
            /\ pc' = "submit_create"
            /\ UNCHANGED raised
       ELSE /\ raised' = "RequestException"
            /\ pc' = "dc_except"
            /\ UNCHANGED account
    /\ UNCHANGED <<inputs, fields, wasm_data, contract_hash, contract_address,
                   console, result, exit_code>>

\* The create step trying again when the submission raises.
deploy_contract_submit_create_retry ==
    /\ pc = "submit_create"
    /\ calls' = Append(calls, SubmitCall(BuildTx("CreateContract", contract_hash), "create"))
    /\ IF mock_submit["create"] = "ok"
       THEN /\ contract_address' = mock_addr
            /\ console' = console \o
                  <<Say("Contract instance created successfully"),
                    Line("Contract address", mock_addr),
                    Say("Initializing contract...")>>
            /\ pc' = "init_load_account"
            /\ UNCHANGED raised
       ELSE IF mock_submit["create"] = "soft"
       THEN /\ raised' = "Exception: Contract creation failed"
            /\ pc' = "dc_except"
            /\ UNCHANGED <<contract_address, console>>
       ELSE /\ pc' = "load_account_create"
            /\ UNCHANGED <<contract_address, console, raised>>
    /\ UNCHANGED <<inputs, fields, wasm_data, account, contract_hash,
                   result, exit_code>>

\* Lines 118-146: build, sign and submit the create-contract transaction.
deploy_contract_submit_create ==
    /\ pc = "submit_create"
    /\ calls' = Append(calls, SubmitCall(BuildTx("CreateContract", contract_hash), "create"))
    /\ IF mock_submit["create"] = "ok"
       THEN /\ contract_address' = mock_addr
            /\ console' = console \o
                  <<Say("Contract instance created successfully"),
                    Line("Contract address", mock_addr),
                    Say("Initializing contract...")>>
            /\ pc' = "init_load_account"
            /\ UNCHANGED raised
       ELSE /\ raised' = (IF mock_submit["create"] = "soft"
                          THEN "Exception: Contract creation failed"
                          ELSE "RequestException")
            /\ pc' = "dc_except"
            /\ UNCHANGED <<contract_address, console>>
    /\ UNCHANGED <<inputs, fields, wasm_data, account, contract_hash,
                   result, exit_code>>

\* ----------------------------------------------------- initialize_contract
\* Lines 160-163: entered through `await`, reloads the account.
initialize_contract_load_account ==
    /\ pc = "init_load_account"
    /\ calls' = Append(calls, LoadCall("init"))
    /\ IF mock_load["init"] = "ok"
       THEN /\ account' = LoadedAccount
            /\ pc' = "init_submit"
            /\ UNCHANGED raised
       ELSE /\ raised' = "RequestException"
            /\ pc' = "init_except"
            /\ UNCHANGED account
    /\ UNCHANGED <<inputs, fields, wasm_data, contract_hash, contract_address,
                   console, result, exit_code>>

\* The init step treating a non-success response as an error.
initialize_contract_submit_fatal ==
    /\ pc = "init_submit"
    /\ calls' = Append(calls, SubmitCall(BuildTx("InvokeContract", contract_address), "init"))
    /\ IF mock_submit["init"] = "ok"
       THEN /\ console' = Append(console, Say("Contract initialized successfully"))
            /\ pc' = "dc_return"
            /\ UNCHANGED raised
       ELSE /\ raised' = (IF mock_submit["init"] = "soft"
                          THEN "Exception: Initialization failed"
                          ELSE "RequestException")
            /\ pc' = "init_except"
            /\ UNCHANGED console
    /\ UNCHANGED <<inputs, fields, locals, result, exit_code>>

\* Lines 165-189: build, sign and submit the init invocation.  A response
\* with 'successful' false only prints a warning; the method returns.
initialize_contract_submit ==
    /\ pc = "init_submit"
    /\ calls' = Append(calls, SubmitCall(BuildTx("InvokeContract", contract_address), "init"))
    /\ IF mock_submit["init"] = "ok"
       THEN /\ console' = Append(console, Say("Contract initialized successfully"))
            /\ pc' = "dc_return"
            /\ UNCHANGED raised
       ELSE IF mock_submit["init"] = "soft"
       THEN /\ console' = Append(console, Say("Contract initialization may have failed"))
            /\ pc' = "dc_return"
            /\ UNCHANGED raised
       ELSE /\ raised' = "RequestException"
            /\ pc' = "init_except"
            /\ UNCHANGED console
    /\ UNCHANGED <<inputs, fields, locals, result, exit_code>>

\* An except clause that logs the error and returns normally.
initialize_contract_except_swallow ==
    /\ pc = "init_except"
    /\ console' = Append(console, Say("Initialization failed"))
    /\ raised' = "none"
    /\ pc' = "dc_return"
    /\ UNCHANGED <<inputs, fields, locals, calls, result, exit_code>>

\* Lines 191-193: log and re-raise; the exception passes into the except
\* clause of deploy_contract, whose try block holds the await (line 147).
initialize_contract_except ==
    /\ pc = "init_except"
    /\ console' = Append(console, Say("Initialization failed"))
    /\ pc' = "dc_except"
    /\ UNCHANGED <<inputs, fields, locals, calls, raised, result, exit_code>>

\* Lines 149-154: the result record.
deploy_contract_return ==
    /\ pc = "dc_return"
    /\ result' = [kind |-> "dict",
                  contract_hash |-> contract_hash,
                  contract_address |-> contract_address,
                  admin_public_key |-> admin_keypair.public_key,
                  network |-> network]
    /\ pc' = "done"
    /\ UNCHANGED <<inputs, fields, locals, calls, console, raised, exit_code>>

\* Lines 156-158: log and re-raise to the awaiting caller.
deploy_contract_except ==
    /\ pc = "dc_except"
    /\ console' = Append(console, Say("Deployment failed"))
    /\ pc' = "done"
    /\ UNCHANGED <<inputs, fields, locals, calls, raised, result, exit_code>>

Next ==
    \/ main_start
    \/ await_start
    \/ setup_network
    \/ setup_account
    \/ init_banner
    \/ main_call
    \/ main_summary
    \/ main_except
    \/ await_deploy_contract
    \/ deploy_contract_load_wasm
    \/ deploy_contract_load_account
    \/ deploy_contract_submit_upload
    \/ deploy_contract_reload_account
    \/ deploy_contract_submit_create
    \/ initialize_contract_load_account
    \/ initialize_contract_submit
    \/ initialize_contract_except
    \/ deploy_contract_return
    \/ deploy_contract_except

Spec == Init /\ [][Next]_vars

TypeOK ==
    /\ pc \in {"start", "setup_network", "setup_account", "banner",
               "constructed", "main_summary", "main_except", "exited",
               "load_wasm", "load_account_upload", "submit_upload",
               "load_account_create", "submit_create", "init_load_account",
               "init_submit", "init_except", "dc_return", "dc_except", "done"}
    /\ exit_code \in {-1, 0, 1}
    /\ contract_hash \in Hashes \cup {Unbound}
    /\ contract_address \in Addrs \cup {Unbound}
    /\ Len(calls) <= 6

\* ------------------------------------------------------------- observations
CallIdx == 1..Len(calls)
Submits(op) == {i \in CallIdx : calls[i].fn = "submit_transaction" /\ calls[i].op = op}
AllSubmits == {i \in CallIdx : calls[i].fn = "submit_transaction"}
Loads == {i \in CallIdx : calls[i].fn = "load_account"}
SubmitOk(op) == \E i \in Submits(op) : calls[i].outcome = "ok"
Printed(l) == \E i \in 1..Len(console) : console[i] = l
PrintedMsg(m) == \E i \in 1..Len(console) : console[i].msg = m
InInitialize == pc \in {"init_load_account", "init_submit", "init_except"}
Entered == PrintedMsg("Starting contract deployment...")

\* C1: a failed upload submission (raised, or 'successful' false) makes
\* deploy_contract raise with no create-contract and no init submission;
\* a failed create-contract submission makes it raise without ever entering
\* initialize_contract (no third load_account, no init submission).
C1_AbortOnFailedSubmission ==
    /\ \A i \in Submits("UploadContractWasm") :
          calls[i].outcome # "ok" =>
             /\ Submits("CreateContract") = {}
             /\ Submits("InvokeContract") = {}
             /\ raised # "none"
             /\ pc \in {"dc_except", "done"}
             /\ result.kind # "dict"
    /\ \A i \in Submits("CreateContract") :
          calls[i].outcome # "ok" =>
             /\ Submits("InvokeContract") = {}
             /\ Cardinality(Loads) <= 2
             /\ ~InInitialize
             /\ ~PrintedMsg("Initializing contract...")
             /\ raised # "none"
             /\ pc \in {"dc_except", "done"}
             /\ result.kind # "dict"

C1_Witness ==
    /\ pc = "done"
    /\ \E i \in Submits("UploadContractWasm") : calls[i].outcome = "soft"
    /\ raised = "Exception: Upload failed"

\* C2: main() exits 0, after the full summary, exactly when every step of
\* the deployment succeeds, and exits non-zero with a failure message when
\* any step fails.
EveryStepSucceeds ==
    /\ network \in {"testnet", "futurenet"}
    /\ ~environ.set \/ environ.value = "" \/ environ.value \in ValidSecrets
    /\ wasm_exists
    /\ \A p \in Phases : mock_load[p] = "ok" /\ mock_submit[p] = "ok"

C2_ExitStatus ==
    (caller = "main" /\ pc = "exited") =>
        IF EveryStepSucceeds
        THEN exit_code = 0 /\ PrintedMsg("Contract Address")
        ELSE exit_code # 0 /\ PrintedMsg("Deployment failed (main)")

\* C3: when upload and create succeed and initialization fails, the hash and
\* the address obtained are still reported: both were printed; after a
\* non-success init response the result record carrying them is returned
\* with only a warning printed, and after an exception inside
\* initialize_contract the failure is printed and the exception propagates.
InitSoftFailed == \E i \in Submits("InvokeContract") : calls[i].outcome = "soft"
InitRaised ==
    /\ Len(calls) >= 5
    /\ calls[Len(calls)].outcome = "raise"

C4_RecordOnlyOnFullSuccess ==
    result.kind = "dict" =>
        /\ SubmitOk("UploadContractWasm")
        /\ SubmitOk("CreateContract")
        /\ SubmitOk("InvokeContract")

\* C4 amended: a returned result record implies that the upload and the
\* create-contract submission answered 'successful' true and that the init
\* submission answered without raising; its 'successful' may be false, and
\* then the warning was printed.  The record holds the hash and address the
\* network answered with, the administrator's public key and the network.
C4_RecordAfterInitResponse ==
    result.kind = "dict" =>
        /\ SubmitOk("UploadContractWasm")
        /\ SubmitOk("CreateContract")
        /\ \E i \in Submits("InvokeContract") : calls[i].outcome \in {"ok", "soft"}
        /\ \A i \in Loads : calls[i].outcome = "ok"
        /\ raised = "none"
        /\ InitSoftFailed => PrintedMsg("Contract initialization may have failed")
        /\ result = [kind |-> "dict", contract_hash |-> mock_hash,
                     contract_address |-> mock_addr,
                     admin_public_key |-> admin_keypair.public_key,
                     network |-> network]

C4_Witness ==
    /\ result.kind = "dict"
    /\ mock_submit["init"] = "soft"
    /\ Len(calls) = 6

\* C5: with the contract binary missing, deploy_contract fails with
\* FileNotFoundError and no load_account or submit_transaction call is made.
C5_MissingWasmNoNetwork ==
    ~wasm_exists =>
        /\ calls = <<>>
        /\ ~wasm_data
        /\ Entered => (raised = "FileNotFoundError" /\ pc \in {"dc_except", "done"})

C5_Witness ==
    /\ ~wasm_exists
    /\ Entered
    /\ pc = "done"
    /\ raised = "FileNotFoundError"

\* C6: once setup_network has run, 'testnet' and 'futurenet' carry exactly
\* their fixed endpoints and passphrase; any other network has raised
\* ValueError with no network call made, no identity resolved and no
\* deployer constructed.
C6_NetworkProfile ==
    pc \notin {"start", "setup_network"} =>
        /\ network = "testnet" =>
              /\ horizon_url = "https://horizon-testnet.stellar.org"
              /\ soroban_url = "https://soroban-testnet.stellar.org"
              /\ network_passphrase = "Test SDF Network ; September 2015"
        /\ network = "futurenet" =>
              /\ horizon_url = "https://horizon-futurenet.stellar.org"
              /\ soroban_url = "https://rpc-futurenet.stellar.org:443"
              /\ network_passphrase = "Test SDF Future Network ; October 2022"
        /\ network \notin {"testnet", "futurenet"} =>
              /\ raised = "ValueError"
              /\ calls = <<>>
              /\ identity_source = "none"
              /\ admin_keypair = NoKeypair
              /\ ~PrintedMsg("VeriLuxe Python Deployer")
              /\ ~Entered
              /\ pc \in {"main_except", "exited", "done"}

C6_Witness ==
    /\ network = "mainnet"
    /\ raised = "ValueError"
    /\ pc = "done"

\* C7: every submitted transaction is built from the account returned by the
\* load_account call that directly precedes it, so an account fetched before
\* one submission is never the source of a later transaction.
C7_AccountRefetched ==
    \A i \in AllSubmits :
        LET j == calls[i].acct IN
        /\ j \in Loads
        /\ j < i
        /\ calls[j].outcome = "ok"
        /\ \A k \in AllSubmits : k < i => k < j

C7_Witness ==
    /\ Cardinality(AllSubmits) = 3
    /\ calls[6].acct = 5

\* C8 as stated: whenever the variable is set (the empty string included)
\* the identity comes from Keypair.from_secret, and when unset from the
\* fallback phrase.
FallbackKeypair == [public_key |-> "GMNEMONIC", secret |-> "SMNEMONIC"]

C8_SetMeansFromSecret ==
    identity_source # "none" =>
        IF environ.set
        THEN identity_source = "secret"
        ELSE identity_source = "mnemonic" /\ admin_keypair = FallbackKeypair

\* C8 amended: when the variable is set to a non-empty value the identity
\* comes from Keypair.from_secret of that value (or construction fails on an
\* invalid secret) and never from the fallback phrase; when it is unset or
\* set to the empty string the identity is the fixed fallback keypair.
C8_NonEmptyMeansFromSecret ==
    identity_source # "none" =>
        IF environ.set /\ environ.value # ""
        THEN /\ identity_source = "secret"
             /\ \/ /\ environ.value \in ValidSecrets
                   /\ admin_keypair = [public_key |-> PublicKeyOf(environ.value),
                                       secret |-> environ.value]
                \/ /\ environ.value \notin ValidSecrets
                   /\ admin_keypair = NoKeypair
                   /\ raised = "Ed25519SecretSeedInvalidError"
        ELSE /\ identity_source = "mnemonic"
             /\ admin_keypair = FallbackKeypair

C8_Witness ==
    /\ environ.set
    /\ environ.value = ""
    /\ identity_source = "mnemonic"
    /\ admin_keypair = FallbackKeypair

\* C9: the calls of one run are a prefix of load, upload, load, create,
\* load, init: each submission at most once and in that order, at most
\* three load_account calls, and a failing call is the last call made.
ExpectedCalls ==
    <<[fn |-> "load_account", op |-> "none"],
      [fn |-> "submit_transaction", op |-> "UploadContractWasm"],
      [fn |-> "load_account", op |-> "none"],
      [fn |-> "submit_transaction", op |-> "CreateContract"],
      [fn |-> "load_account", op |-> "none"],
      [fn |-> "submit_transaction", op |-> "InvokeContract"]>>

C9_NoRetryNoGoingBack ==
    /\ Len(calls) <= Len(ExpectedCalls)
    /\ \A i \in CallIdx :
          /\ calls[i].fn = ExpectedCalls[i].fn
          /\ calls[i].op = ExpectedCalls[i].op
          /\ calls[i].outcome # "ok" => i = Len(calls)
    /\ Cardinality(Loads) <= 3

C9_Witness ==
    /\ pc = "done"
    /\ Len(calls) = 4
    /\ calls[4].outcome = "raise"

\* C10: in a run of main() the body of deploy_contract never executes: the
\* binary is not read, no load_account or submit_transaction call is made,
\* and the summary lines are never printed.
C10_MainNeverDeploys ==
    caller = "main" =>
        /\ ~wasm_data
        /\ calls = <<>>
        /\ ~Entered
        /\ ~PrintedMsg("Contract Hash")
        /\ ~PrintedMsg("Contract Address")
        /\ result.kind # "dict"
        /\ exit_code # 0

C10_Witness ==
    /\ caller = "main"
    /\ pc = "exited"
    /\ raised = "TypeError"
    /\ PrintedMsg("Deployment Summary:")
    /\ EveryStepSucceeds

====
